---- MODULE Spec2Model ----
(***************************************************************************)
(* The in-process core of the CNG GNSS Interactive Demo: the EventBus of   *)
(* src/.backups/backup_20250916_075827/src/core/event_bus.py, the          *)
(* SimulationClock of .../src/core/simulation_clock.py and the Application *)
(* of src/src/core/app_framework.py, as a state machine.  A publish is a   *)
(* sequence of steps of the publishing thread                              *)
(* (append under the lock, trim and snapshot under the lock, one step per  *)
(* subscriber of the snapshot outside the lock, the statistics update      *)
(* under the lock); subscribe, unsubscribe, get_history and clear_history  *)
(* run whole under the lock.  A callback is user code: it is one of a      *)
(* small set of behaviours, some of which call back into the bus.  The     *)
(* clock's and the application's publish calls go to a bus without         *)
(* subscribers, except in SpecClockSubscribed, where an operation of the   *)
(* clock is a sequence of steps inside the clock's lock.  The              *)
(* application's run and shutdown are sequences of steps of the calling    *)
(* thread; its other operations run whole under its lock.                  *)
(***************************************************************************)
EXTENDS Integers, Sequences, FiniteSets, TLC

\* ------------------------------------------------------------- bounds
\* Subscriptions issued in a run (subscribe calls).
MaxSubs == 2
\* Publish calls in a run of Spec and of SpecThreads; in SpecHistory, the
\* publish calls that choose between the two event types.
MaxEvents == 2
\* max_history values the constructor is given in SpecThreads and SpecHistory:
\* 0..MaxHistory.
MaxHistory == 2
\* Explicit limit arguments of get_history: 0..MaxLimit.
MaxLimit == 2
\* Publish calls in a run of SpecHistory beyond DefaultLimit.
ExtraPublishes == 3
\* Events published in a run of SpecClock, SpecApp or SpecAppLive.
MaxPublished == 7
\* step_forward and step_backward are called with -1, 0 and MaxSteps steps.
MaxSteps == 1
\* Seconds of real time that pass in a run of SpecClock.
MaxNow == 1
\* Timers pending or fired besides the one _update_timer refers to.
MaxTimers == 1
\* Component objects registered in a run of SpecApp.
MaxComponents == 2
\* Frames of the main loop in a run of SpecApp.
MaxFrames == 2
\* A re-publishing callback publishes until it has been invoked this often.
MaxInvocations == 2
\* Events published in a run of SpecClockSubscribed.
MaxClockEvents == 4

\* ---------------------------------------------------------- constants
\* get_history(event_type=None, limit=100)
DefaultLimit == 100
\* EventBus(max_history=1000)
DefaultMaxHistory == 1000

\* if not (0.1 <= multiplier <= 100.0), in hundredths
MinSpeed == 10
MaxSpeed == 10000
\* self._speed_multiplier = 1.0, in hundredths
DefaultSpeed == 100
\* self._step_size = timedelta(seconds=1), in hundredths of a second
StepSize == 100
\* A multiplier below the range: half of 0.1
TooSlow == MinSpeed \div 2

None == "None"
Threads == {"t1", "t2"}
MainThread == "t1"
OtherThread == "t2"

\* Event types are dotted strings; a string is modelled by its segments,
\* so that equality of types is equality of strings and a wildcard match
\* is something else than equality.
WildcardType == <<"config", "graphics", "*">>
ChangedType == <<"config", "graphics", "changed">>
EventTypes == {WildcardType, ChangedType}
\* The type test_rlock_behavior publishes from inside its callback.
RecursiveType == <<"recursive_test">>
\* Scenario A subscribes with priorities 10 and 1; 0 is the default.
Priorities == {1, 10}
SubIds == 1..MaxSubs
\* event_type=None, the default of get_history: no filtering by type.
NoType == << >>
\* "nonexistent_id": an id that subscribe never issues.
NonexistentId == 0

\* What a subscriber's callback and filter do.  callback: "ok" returns,
\* "count" records its invocation (results.append, one atomic step) and
\* returns, "raise" raises an Exception, "sub" subscribes a new callback to
\* the same event type on its first invocation, "unsub" unsubscribes some
\* subscription, "pub" counts its invocations and publishes its own event
\* type again while the count is below MaxInvocations.  filter_func: None,
\* or "reject" (returns false).
Kind(cb, filter) == [callback |-> cb, filter_func |-> filter]
Plain == Kind("ok", None)

\* The subscribe calls of a run of Spec: to "config.graphics.changed" a
\* subscriber that returns, raises, is filtered out, subscribes or
\* unsubscribes, with either priority; and GraphicsManager's subscription to
\* "config.graphics.*".
Requests ==
    { [event_type |-> ChangedType, priority |-> p, kind |-> k] :
        p \in Priorities,
        k \in { Plain, Kind("raise", None), Kind("ok", "reject"),
                Kind("sub", None), Kind("unsub", None) } }
    \cup { [event_type |-> WildcardType, priority |-> 0, kind |-> Plain] }

VARIABLES
    subscribers,            \* _subscribers: event type -> list of subscriptions
    lock,                   \* _lock: the RLock, [owner, count]
    event_history,          \* _event_history
    max_history,            \* _max_history
    performance_stats,      \* _performance_stats: the event types with an entry
    total_events_published, \* _total_events_published
    stack,                  \* per thread: the publish calls in progress, innermost last
    ret,                    \* per thread: the last call that returned to the thread's top level
    nextSubId,              \* stands for uuid4(): the next subscription id
    nextEventId,            \* stands for uuid4(): the next event id
    callback_count,         \* per subscription: the counter its callback keeps, if it keeps one
    appended,               \* history variable: the events that publish calls made on the
                            \* bus directly have appended to the history since construction
                            \* or the last clear_history, in order
    calls,                  \* history variable: the callback invocations, in order, since the
                            \* last publish call began
    snap,                   \* history variable: per event of calls, what its publish copied
    issued,                 \* history variable: per id, what subscribe was called with
    registered              \* history variable: ids subscribed and not yet unsubscribed

\* SimulationClock.  Simulation time and speed are in hundredths (of a
\* second, of real time's pace); real time is in seconds.
VARIABLES
    is_playing,             \* _is_playing
    speed_multiplier,       \* _speed_multiplier
    current_time,           \* _current_time, relative to the start time
    last_update_time,       \* _last_update_time
    update_timer,           \* _update_timer: None, or the state of the Timer it refers to
    orphan_timers,          \* started Timers that _update_timer no longer refers to
    fired_timers,           \* Timer threads that have fired and not yet run update_loop
    now,                    \* time.perf_counter()
    clock_lock,             \* the clock's _lock: the thread that holds it, or None
    clock_pc,               \* per thread: where it is in an operation of the clock that
                            \* publishes to subscribers, with what it has yet to do
    last                    \* history variable: the last call of a clock or application
                            \* operation and the state it was made in

\* Application.
VARIABLES
    components,             \* _components: the registered [name, component], in insertion order
    shutdown_requested,     \* _shutdown_requested
    running,                \* _running
    frame_count,            \* _perf_monitor's frame count
    app_pc,                 \* per thread: where it is in run() or shutdown(), with its locals
    nextComponent,          \* the next component object to be registered
    life,                   \* history variable: the lifecycle calls made on components since the
                            \* main thread's last call of an application operation began, in order
    initialized             \* history variable: the components whose initialize startup has
                            \* called and which returned true

busVars == << subscribers, lock, event_history, max_history, performance_stats,
              total_events_published, stack, ret, nextSubId, nextEventId,
              callback_count, appended, calls, snap, issued, registered >>

clockVars == << is_playing, speed_multiplier, current_time, last_update_time,
                update_timer, orphan_timers, fired_timers, now, clock_lock, clock_pc,
                last >>

appVars == << components, shutdown_requested, running, frame_count, app_pc,
              nextComponent, life, initialized >>

vars == << busVars, clockVars, appVars >>


\* ------------------------------------------------------------ helpers
Min(a, b) == IF a < b THEN a ELSE b
Max(a, b) == IF a > b THEN a ELSE b

Event(id, et) == [event_id |-> id, event_type |-> et]

EventSubscription(id, et, prio, kind) ==
    [subscription_id |-> id, event_type |-> et, priority |-> prio,
     callback |-> kind.callback, filter_func |-> kind.filter_func]

\* Python's seq[start:] for any integer start.
PySliceFrom(seq, start) ==
    LET n == Len(seq)
        from == IF start < 0 THEN Max(n + start, 0) ELSE Min(start, n)
    IN  SubSeq(seq, from + 1, n)

\* list.pop(i), 1-based here.
PopAt(seq, i) == SubSeq(seq, 1, i - 1) \o SubSeq(seq, i + 1, Len(seq))

\* dict.get(event_type, [])
SubscribersGet(et) == IF et \in DOMAIN subscribers THEN subscribers[et] ELSE << >>

\* ---------------------------------------------------------------- lock
\* Mutant: no mutual exclusion.
CanAlwaysAcquire(t) == TRUE

\* threading.RLock: free, or owned by one thread that may take it again.
CanAcquire(t) == lock.owner \in {None, t}
Acquired(t) == [owner |-> t, count |-> lock.count + 1]

\* Mutant: the lock is kept when a locked block ends.
NotReleased(t) == lock

Released(t) ==
    IF lock.count <= 1 THEN [owner |-> None, count |-> 0]
    ELSE [owner |-> lock.owner, count |-> lock.count - 1]

\* ----------------------------------------------------------- subscribe
\* list.sort(key=lambda s: s.priority, reverse=True): a stable sort, so
\* subscriptions of equal priority keep the order they had before it.
\* Mutant: the sort without reverse=True.
InsertAscending(sorted, s) ==
    LET k == Cardinality({ i \in 1..Len(sorted) : sorted[i].priority <= s.priority })
    IN  SubSeq(sorted, 1, k) \o << s >> \o SubSeq(sorted, k + 1, Len(sorted))

\* Mutant: a descending sort that is not stable (ascending sort, then reversed).
InsertBeforeEqual(sorted, s) ==
    LET k == Cardinality({ i \in 1..Len(sorted) : sorted[i].priority > s.priority })
    IN  SubSeq(sorted, 1, k) \o << s >> \o SubSeq(sorted, k + 1, Len(sorted))

InsertByPriority(sorted, s) ==
    LET k == Cardinality({ i \in 1..Len(sorted) : sorted[i].priority >= s.priority })
    IN  SubSeq(sorted, 1, k) \o << s >> \o SubSeq(sorted, k + 1, Len(sorted))

RECURSIVE SortByPriority(_)
SortByPriority(list) ==
    IF list = << >> THEN << >>
    ELSE InsertByPriority(SortByPriority(SubSeq(list, 1, Len(list) - 1)),
                          list[Len(list)])

\* The body of subscribe under the lock: setdefault, append, sort.
Subscribed(sub) ==
    LET et == sub.event_type
        list == Append(SubscribersGet(et), sub)
    IN  [k \in DOMAIN subscribers \cup {et} |->
            IF k = et THEN SortByPriority(list) ELSE subscribers[k]]

\* --------------------------------------------------------- unsubscribe
\* The position of the subscription with this id, as the two loops of
\* unsubscribe find it: << event type, index >>, or << >> when there is none.
FindSubscription(id) ==
    LET all == UNION { { << et, i >> : i \in 1..Len(subscribers[et]) } :
                       et \in DOMAIN subscribers }
        hits == { p \in all : subscribers[p[1]][p[2]].subscription_id = id }
    IN  IF hits = {} THEN << >> ELSE CHOOSE p \in hits : TRUE

\* Mutant: the subscription is found and not removed.
UnsubscribedKeeps(id) == subscribers

\* subscriptions.pop(i)
Unsubscribed(id) ==
    LET p == FindSubscription(id)
    IN  IF p = << >> THEN subscribers
        ELSE [subscribers EXCEPT ![p[1]] = PopAt(@, p[2])]

\* What unsubscribe returns.
UnsubscribeResult(id) == FindSubscription(id) # << >>

\* History: a subscription as subscribe was called with it and, for a counting
\* subscriber, the event counter at that time (the events from that one on are
\* published later).
Issued(sub) ==
    [subscription_id |-> sub.subscription_id, event_type |-> sub.event_type,
     priority |-> sub.priority, callback |-> sub.callback,
     filter_func |-> sub.filter_func,
     since |-> IF sub.callback = "count" THEN nextEventId ELSE 0]

\* History: 1 for an unsubscribe call with an id that is subscribed and not
\* yet unsubscribed, 2 for a call with an id unsubscribed before, 0 for a call
\* with an id that subscribe did not issue.
NthUnsubscribe(id) ==
    IF id \in registered THEN 1
    ELSE IF id \in 1..(nextSubId - 1) THEN 2 ELSE 0

\* ------------------------------------------------------------- publish
\* self._event_history.append(event)
HistoryAppended(event) == Append(event_history, event)

\* Mutant: the bound is enforced one event early (>= for >).
HistoryTrimmedEarly ==
    IF Len(event_history) >= max_history THEN PopAt(event_history, 1) ELSE event_history

\* Mutant: pop() for pop(0): the newest event is dropped.
HistoryTrimmedNewest ==
    IF Len(event_history) > max_history
    THEN PopAt(event_history, Len(event_history)) ELSE event_history

\* if len(self._event_history) > self._max_history: self._event_history.pop(0)
HistoryTrimmed ==
    IF Len(event_history) > max_history THEN PopAt(event_history, 1) ELSE event_history

\* A pattern with a trailing "*" segment matches the types that agree with it
\* on the segments before.
WildcardMatches(pattern, et) ==
    /\ Len(pattern) > 0
    /\ pattern[Len(pattern)] = "*"
    /\ Len(et) >= Len(pattern)
    /\ SubSeq(et, 1, Len(pattern) - 1) = SubSeq(pattern, 1, Len(pattern) - 1)

RECURSIVE Concatenated(_)
Concatenated(keys) ==
    IF keys = {} THEN << >>
    ELSE LET k == CHOOSE x \in keys : TRUE
         IN  subscribers[k] \o Concatenated(keys \ {k})

\* Mutant: a publish also reaches the subscribers of matching wildcard patterns.
SnapshotWildcard(et) ==
    SubscribersGet(et) \o
    Concatenated({ k \in DOMAIN subscribers : k # et /\ WildcardMatches(k, et) })

\* subscribers = self._subscribers.get(event_type, []).copy()
Snapshot(et) == SubscribersGet(et)

\* Mutant: the loop runs over the registered list itself, not over a copy.
DeliveryListLive(f) == SubscribersGet(f.event.event_type)

\* for subscription in subscribers: the list the loop of a publish runs over.
DeliveryList(f) == f.subscribers

\* Mutant: no try/except around the callback.
ExceptionUncaught(exc) == FALSE

\* except Exception: which of the exceptions a callback raises are caught.
ExceptionCaught(exc) == exc = "Exception"

\* if subscription.filter_func is None or subscription.filter_func(event)
FilterPasses(sub) == sub.filter_func = None

\* self._total_events_published += 1, on the value the thread has read.
Incremented(read) == read + 1

\* A publish call in progress: where it is, its event, its copy of the
\* subscriber list, its position in the copy, the counter value it has read.
Frame(event) == [pc |-> "locked", event |-> event, subscribers |-> << >>,
                 idx |-> 1, total |-> 0]

Top(t) == stack[t][Len(stack[t])]
SetTop(t, f) == [stack EXCEPT ![t] = SubSeq(@, 1, Len(@) - 1) \o << f >>]
Pushed(t, f) == [stack EXCEPT ![t] = Append(@, f)]
Popped(t) == [stack EXCEPT ![t] = SubSeq(@, 1, Len(@) - 1)]

Idle(t) == stack[t] = << >>
Running == [op |-> "running"]
Returned(op, arg, val) == [op |-> op, arg |-> arg, val |-> val]

\* The events whose publish call has not returned.  A thread's stack holds
\* its publish call in progress, if it is in one.
InProgress ==
    { stack[u][i].event.event_id : << u, i >> \in
        UNION { { << u, i >> : i \in 1..Len(stack[u]) } : u \in Threads } }

\* History: calls and snap hold the events whose publish has not returned
\* and those of the publish that returned last; the next call from a
\* thread's top level drops the events whose publish has returned.
PrunedCalls == SelectSeq(calls, LAMBDA c : c.ev \in InProgress)
PrunedSnap == [e \in DOMAIN snap \cap InProgress |-> snap[e]]

TypeOK ==
    /\ lock.owner \in Threads \cup {None}
    /\ lock.count \in 0..1
    /\ max_history \in Nat
    /\ total_events_published \in Nat
    /\ nextSubId = Len(issued) + 1
    /\ registered \subseteq 1..(nextSubId - 1)
    /\ DOMAIN callback_count = DOMAIN issued

\* No call of a clock or application operation yet.
NoCall == [op |-> "none"]

\* SimulationClock(event_bus)
InitClock ==
    /\ is_playing = FALSE
    /\ speed_multiplier = DefaultSpeed
    /\ current_time = 0
    /\ last_update_time = 0
    /\ update_timer = None
    /\ orphan_timers = 0
    /\ fired_timers = 0
    /\ now = 0
    /\ clock_lock = None
    /\ clock_pc = [t \in Threads |-> [pc |-> "idle"]]
    /\ last = NoCall

\* Application(): the fields besides event_bus and clock.
InitApp ==
    /\ components = << >>
    /\ shutdown_requested = FALSE
    /\ running = FALSE
    /\ frame_count = 0
    /\ app_pc = [t \in Threads |-> [pc |-> "idle", runs |-> 0]]
    /\ nextComponent = 1
    /\ life = << >>
    /\ initialized = {}

InitBus(sizes) ==
    /\ subscribers = << >>
    /\ lock = [owner |-> None, count |-> 0]
    /\ event_history = << >>
    /\ max_history \in sizes
    /\ performance_stats = {}
    /\ total_events_published = 0
    /\ stack = [t \in Threads |-> << >>]
    /\ ret = [t \in Threads |-> [op |-> "none"]]
    /\ nextSubId = 1
    /\ nextEventId = 1
    /\ callback_count = << >>
    /\ appended = << >>
    /\ calls = << >>
    /\ snap = << >>
    /\ issued = << >>
    /\ registered = {}

\* EventBus()
Init == InitBus({DefaultMaxHistory}) /\ InitClock /\ InitApp

\* subscribe(event_type, callback, priority, filter_func) from a thread's top level.
Subscribe(t, et, prio, kind) ==
    /\ Idle(t)
    /\ nextSubId <= MaxSubs
    /\ CanAcquire(t)
    /\ subscribers' = Subscribed(EventSubscription(nextSubId, et, prio, kind))
    /\ nextSubId' = nextSubId + 1
    /\ callback_count' = Append(callback_count, 0)
    /\ issued' = Append(issued, Issued(EventSubscription(nextSubId, et, prio, kind)))
    /\ registered' = registered \cup {nextSubId}
    /\ ret' = [ret EXCEPT ![t] = Returned("subscribe", et, nextSubId)]
    /\ calls' = PrunedCalls
    /\ snap' = PrunedSnap
    /\ UNCHANGED << lock, event_history, appended, max_history, performance_stats,
                    total_events_published, stack, nextEventId >>
    /\ UNCHANGED << clockVars, appVars >>

\* unsubscribe(subscription_id) from a thread's top level.
Unsubscribe(t, id) ==
    /\ Idle(t)
    /\ CanAcquire(t)
    /\ subscribers' = Unsubscribed(id)
    /\ registered' = registered \ {id}
    /\ ret' = [ret EXCEPT ![t] =
                 [op |-> "unsubscribe", arg |-> id, val |-> UnsubscribeResult(id),
                  nth |-> NthUnsubscribe(id)]]
    /\ calls' = PrunedCalls
    /\ snap' = PrunedSnap
    /\ UNCHANGED << lock, event_history, appended, max_history, performance_stats,
                    total_events_published, stack, nextSubId, nextEventId,
                    callback_count, issued >>
    /\ UNCHANGED << clockVars, appVars >>

\* publish(event_type) from a thread's top level, first half of the first
\* locked block: the thread takes the lock and appends the event.
PublishBegins(t, et) ==
    /\ Idle(t)
    /\ CanAcquire(t)
    /\ lock' = Acquired(t)
    /\ event_history' = HistoryAppended(Event(nextEventId, et))
    /\ appended' = Append(appended, Event(nextEventId, et))
    /\ nextEventId' = nextEventId + 1
    /\ stack' = Pushed(t, Frame(Event(nextEventId, et)))
    /\ ret' = [ret EXCEPT ![t] = Running]
    /\ calls' = PrunedCalls
    /\ snap' = PrunedSnap
    /\ UNCHANGED << subscribers, max_history, performance_stats,
                    total_events_published, nextSubId, callback_count, issued,
                    registered >>

\* publish(event_type) called on the bus directly.
Publish(t, et) == PublishBegins(t, et) /\ UNCHANGED << clockVars, appVars >>

\* Second half of the first locked block: trim the history, copy the
\* subscriber list, release the lock.
PublishSnapshot(t) ==
    /\ ~Idle(t)
    /\ Top(t).pc = "locked"
    /\ event_history' = HistoryTrimmed
    /\ UNCHANGED appended
    /\ LET et == Top(t).event.event_type
           e == Top(t).event.event_id
           list == Snapshot(et)
       IN  /\ stack' = SetTop(t, [Top(t) EXCEPT !.pc = "deliver", !.subscribers = list])
           /\ snap' = [k \in DOMAIN snap \cup {e} |->
                         IF k = e
                         THEN [event_type |-> et,
                               ids |-> [i \in 1..Len(list) |-> list[i].subscription_id],
                               reg |-> { id \in registered : issued[id].event_type = et }]
                         ELSE snap[k]]
    /\ lock' = Released(t)
    /\ UNCHANGED << subscribers, max_history, performance_stats,
                    total_events_published, ret, nextSubId, nextEventId,
                    callback_count, calls, issued, registered >>
    /\ UNCHANGED << clockVars, appVars >>

\* What a callback does to the bus when it is invoked: nothing, or one call
\* of subscribe or unsubscribe, made from inside the callback and needing the
\* lock as any call does.  count is the callback's counter with
\* this invocation counted.
CallbackReturns(t, sub, count) ==
    /\ \/ sub.callback \in {"ok", "count", "raise", "sub"}
       \/ sub.callback = "unsub" /\ nextSubId = 1
       \/ sub.callback = "pub" /\ count[sub.subscription_id] >= MaxInvocations
    /\ sub.callback = "sub" => (count[sub.subscription_id] > 1 \/ nextSubId > MaxSubs)
    /\ callback_count' = count
    /\ UNCHANGED << subscribers, lock, event_history, appended, nextSubId, nextEventId,
                    issued, registered >>

\* event_bus.subscribe('modification_test', new_callback), on the first invocation.
CallbackSubscribes(t, sub, count) ==
    /\ sub.callback = "sub"
    /\ count[sub.subscription_id] = 1
    /\ nextSubId <= MaxSubs
    /\ CanAcquire(t)
    /\ LET new == EventSubscription(nextSubId, sub.event_type, 0, Plain)
       IN  /\ subscribers' = Subscribed(new)
           /\ issued' = Append(issued, Issued(new))
    /\ nextSubId' = nextSubId + 1
    /\ callback_count' = Append(count, 0)
    /\ registered' = registered \cup {nextSubId}
    /\ UNCHANGED << lock, event_history, appended, nextEventId >>

CallbackUnsubscribes(t, sub, count) ==
    /\ sub.callback = "unsub"
    /\ CanAcquire(t)
    /\ \E id \in 1..(nextSubId - 1) :
          /\ subscribers' = Unsubscribed(id)
          /\ registered' = registered \ {id}
    /\ callback_count' = count
    /\ UNCHANGED << lock, event_history, appended, nextSubId, nextEventId, issued >>

\* if lock_count < 3: self.event_bus.publish('recursive_test', ...): the
\* callback calls publish, whose first locked block begins; the loop that
\* invoked the callback goes on when that publish has returned.
CallbackPublishes(t, sub, count, next) ==
    /\ sub.callback = "pub"
    /\ count[sub.subscription_id] < MaxInvocations
    /\ CanAcquire(t)
    /\ lock' = Acquired(t)
    /\ event_history' = HistoryAppended(Event(nextEventId, sub.event_type))
    /\ appended' = Append(appended, Event(nextEventId, sub.event_type))
    /\ nextEventId' = nextEventId + 1
    /\ stack' = [stack EXCEPT ![t] =
           SubSeq(@, 1, Len(@) - 1) \o << next, Frame(Event(nextEventId, sub.event_type)) >>]
    /\ callback_count' = count
    /\ UNCHANGED << subscribers, nextSubId, issued, registered >>

\* One turn of the delivery loop: the next subscription of the list, its
\* filter, its callback, and the except clause around both.
Deliver(t) ==
    /\ ~Idle(t)
    /\ Top(t).pc = "deliver"
    /\ Top(t).idx <= Len(DeliveryList(Top(t)))
    /\ LET f == Top(t)
           sub == DeliveryList(f)[f.idx]
           next == [f EXCEPT !.idx = @ + 1]
           count == IF sub.callback \in {"count", "sub", "pub"}
                    THEN [callback_count EXCEPT ![sub.subscription_id] = @ + 1]
                    ELSE callback_count
       IN  IF ~FilterPasses(sub)
           THEN /\ stack' = SetTop(t, next)
                /\ UNCHANGED << subscribers, lock, event_history, appended, ret, nextSubId,
                                nextEventId, callback_count, calls, issued, registered >>
           ELSE /\ calls' = Append(calls, [sub |-> sub.subscription_id,
                                           ev |-> f.event.event_id])
                /\ \/ /\ CallbackReturns(t, sub, count)
                      /\ IF sub.callback = "raise" /\ ~ExceptionCaught("Exception")
                         THEN /\ stack' = [stack EXCEPT ![t] = << >>]
                              /\ ret' = [ret EXCEPT ![t] =
                                           Returned("publish", f.event.event_type, "raised")]
                         ELSE /\ stack' = SetTop(t, next)
                              /\ UNCHANGED ret
                   \/ /\ CallbackSubscribes(t, sub, count)
                      /\ stack' = SetTop(t, next)
                      /\ UNCHANGED ret
                   \/ /\ CallbackUnsubscribes(t, sub, count)
                      /\ stack' = SetTop(t, next)
                      /\ UNCHANGED ret
                   \/ /\ CallbackPublishes(t, sub, count, next)
                      /\ UNCHANGED ret
    /\ UNCHANGED << max_history, performance_stats, total_events_published, snap >>
    /\ UNCHANGED << clockVars, appVars >>

\* The second locked block, first half: take the lock, store the duration,
\* read the counter.
PublishStats(t) ==
    /\ ~Idle(t)
    /\ Top(t).pc = "deliver"
    /\ Top(t).idx > Len(DeliveryList(Top(t)))
    /\ CanAcquire(t)
    /\ lock' = Acquired(t)
    /\ performance_stats' = performance_stats \cup {Top(t).event.event_type}
    /\ stack' = SetTop(t, [Top(t) EXCEPT !.pc = "count", !.total = total_events_published])
    /\ UNCHANGED << subscribers, event_history, appended, max_history, total_events_published,
                    ret, nextSubId, nextEventId, callback_count, calls, snap, issued,
                    registered >>
    /\ UNCHANGED << clockVars, appVars >>

\* Second half: store the counter plus one, release the lock, return.
PublishReturn(t) ==
    /\ ~Idle(t)
    /\ Top(t).pc = "count"
    /\ total_events_published' = Incremented(Top(t).total)
    /\ lock' = Released(t)
    /\ stack' = Popped(t)
    /\ ret' = IF Len(stack[t]) = 1
              THEN [ret EXCEPT ![t] = Returned("publish", Top(t).event.event_type, None)]
              ELSE ret
    /\ UNCHANGED << subscribers, event_history, appended, max_history, performance_stats,
                    nextSubId, nextEventId, callback_count, calls, snap, issued,
                    registered >>
    /\ UNCHANGED << clockVars, appVars >>

\* ------------------------------------------------- history, statistics
\* get_history(event_type, limit): the slice [-limit:] of the history, or of
\* its events of one type.
HistoryOf(et, limit) ==
    IF et = NoType
    THEN PySliceFrom(event_history, -limit)
    ELSE PySliceFrom(SelectSeq(event_history, LAMBDA e : e.event_type = et), -limit)

GetHistory(t, et, limit) ==
    /\ Idle(t)
    /\ CanAcquire(t)
    /\ ret' = [ret EXCEPT ![t] =
                 Returned("get_history", [event_type |-> et, limit |-> limit],
                          HistoryOf(et, limit))]
    /\ calls' = PrunedCalls
    /\ snap' = PrunedSnap
    /\ UNCHANGED << subscribers, lock, event_history, appended, max_history, performance_stats,
                    total_events_published, stack, nextSubId, nextEventId,
                    callback_count, issued, registered >>
    /\ UNCHANGED << clockVars, appVars >>

\* clear_history()
ClearHistory(t) ==
    /\ Idle(t)
    /\ CanAcquire(t)
    /\ event_history' = << >>
    /\ appended' = << >>
    /\ ret' = [ret EXCEPT ![t] = Returned("clear_history", None, None)]
    /\ calls' = PrunedCalls
    /\ snap' = PrunedSnap
    /\ UNCHANGED << subscribers, lock, max_history, performance_stats,
                    total_events_published, stack, nextSubId, nextEventId,
                    callback_count, issued, registered >>
    /\ UNCHANGED << clockVars, appVars >>

\* ------------------------------------------------------ SimulationClock
TimePlay == <<"time", "play">>
TimePause == <<"time", "pause">>
TimeStep == <<"time", "step">>
TimeChanged == <<"time", "changed">>
TimeSpeedChanged == <<"time", "speed_changed">>

\* The clock and application state a call is made in.
StateNow ==
    [is_playing |-> is_playing, speed_multiplier |-> speed_multiplier,
     current_time |-> current_time, last_update_time |-> last_update_time,
     update_timer |-> update_timer, published |-> total_events_published,
     components |-> components, shutdown_requested |-> shutdown_requested,
     running |-> running]

\* History: a call of an operation, what it returned or raised, the state it
\* was made in, whether a tick has updated the time since it returned, and,
\* when the call before it was a step_forward, a shutdown or an
\* unregister_component, that call's argument and result and the simulation
\* time it was made at.
Called(op, arg, val) ==
    [op |-> op, arg |-> arg, val |-> val, pre |-> StateNow, updated |-> FALSE,
     was |-> IF last.op \in {"step_forward", "shutdown", "unregister_component"}
             THEN [op |-> last.op, arg |-> last.arg, val |-> last.val,
                   current_time |-> last.pre.current_time]
             ELSE NoCall]

\* The event of _publish_event and _publish_time_changed: its type and the
\* "time" entry of its data.
TimeEvent(et, time) == [event_type |-> et, time |-> time]

\* The Event objects of a handler's publish calls, ids in the order of the calls.
Events(published) ==
    [i \in DOMAIN published |->
        [event_id |-> nextEventId + i - 1, event_type |-> published[i].event_type,
         time |-> published[i].time]]

\* The history after publish has appended and trimmed for each event in turn.
RECURSIVE StoredAll(_, _)
StoredAll(history, events) ==
    IF events = << >> THEN history
    ELSE LET h == Append(history, Head(events))
         IN  StoredAll(IF Len(h) > max_history THEN PopAt(h, 1) ELSE h, Tail(events))

\* The publish calls of one handler, whole, for event types that have no
\* subscriber: each appends to the history, trims it, stores the duration
\* and counts the event.
PublishesAll(t, published) ==
    /\ \A i \in DOMAIN published : SubscribersGet(published[i].event_type) = << >>
    /\ nextEventId + Len(published) - 1 <= MaxPublished
    /\ CanAcquire(t)
    /\ event_history' = StoredAll(event_history, Events(published))
    /\ nextEventId' = nextEventId + Len(published)
    /\ total_events_published' = total_events_published + Len(published)
    /\ performance_stats' =
          performance_stats \cup { published[i].event_type : i \in DOMAIN published }
    /\ UNCHANGED << subscribers, lock, max_history, stack, ret, nextSubId,
                    callback_count, appended, calls, snap, issued, registered >>

\* _update_time_internal: the simulation time it computes for a playing
\* clock, real_delta * speed_multiplier later.
UpdatedTime == current_time + (now - last_update_time) * speed_multiplier

\* Mutant: play does not look at _is_playing.
StoppedOrNot == TRUE

\* if not self._is_playing
Stopped == ~is_playing

\* play().  _start_update_loop runs update_loop once in the calling thread:
\* it updates the time (no real time has passed since the line before),
\* publishes "time.changed" and starts a Timer; then "time.play" is published.
ClockPlay(t) ==
    /\ UNCHANGED << clock_lock, clock_pc >>
    /\ IF Stopped
       THEN /\ is_playing' = TRUE
            /\ last_update_time' = now
            /\ update_timer' = "pending"
            /\ PublishesAll(t, << TimeEvent(TimeChanged, current_time),
                                  TimeEvent(TimePlay, current_time) >>)
       ELSE /\ UNCHANGED << is_playing, last_update_time, update_timer >>
            /\ UNCHANGED busVars
    /\ last' = Called("play", None, None)
    /\ UNCHANGED << speed_multiplier, current_time, orphan_timers, fired_timers, now >>
    /\ UNCHANGED appVars

\* pause().  _stop_update_loop cancels the Timer _update_timer refers to.
ClockPause(t) ==
    /\ UNCHANGED << clock_lock, clock_pc >>
    /\ IF is_playing
       THEN /\ is_playing' = FALSE
            /\ update_timer' = None
            /\ PublishesAll(t, << TimeEvent(TimePause, current_time) >>)
       ELSE /\ UNCHANGED << is_playing, update_timer >>
            /\ UNCHANGED busVars
    /\ last' = Called("pause", None, None)
    /\ UNCHANGED << speed_multiplier, current_time, last_update_time, orphan_timers,
                    fired_timers, now >>
    /\ UNCHANGED appVars

\* Mutant: step_backward steps one step whatever its argument.
SteppedOnce(time, steps) == time - StepSize

\* self._current_time += delta / -= delta, delta = self._step_size * steps
SteppedForward(time, steps) == time + StepSize * steps
SteppedBackward(time, steps) == time - StepSize * steps

\* Mutant: "time.changed" first.
StepEventsSwapped(time) == << TimeEvent(TimeChanged, time), TimeEvent(TimeStep, time) >>

\* self._publish_event("time.step"); self._publish_time_changed()
StepEvents(time) == << TimeEvent(TimeStep, time), TimeEvent(TimeChanged, time) >>

\* step_forward(steps)
StepForward(t, steps) ==
    /\ UNCHANGED << clock_lock, clock_pc >>
    /\ current_time' = SteppedForward(current_time, steps)
    /\ PublishesAll(t, StepEvents(SteppedForward(current_time, steps)))
    /\ last' = Called("step_forward", steps, None)
    /\ UNCHANGED << is_playing, speed_multiplier, last_update_time, update_timer,
                    orphan_timers, fired_timers, now >>
    /\ UNCHANGED appVars

\* step_backward(steps)
StepBackward(t, steps) ==
    /\ UNCHANGED << clock_lock, clock_pc >>
    /\ current_time' = SteppedBackward(current_time, steps)
    /\ PublishesAll(t, StepEvents(SteppedBackward(current_time, steps)))
    /\ last' = Called("step_backward", steps, None)
    /\ UNCHANGED << is_playing, speed_multiplier, last_update_time, update_timer,
                    orphan_timers, fired_timers, now >>
    /\ UNCHANGED appVars

\* Mutant: no validation.
AnySpeed(multiplier) == TRUE

\* 0.1 <= multiplier <= 100.0
ValidSpeed(multiplier) == MinSpeed <= multiplier /\ multiplier <= MaxSpeed

\* set_speed(multiplier)
SetSpeed(t, multiplier) ==
    /\ UNCHANGED << clock_lock, clock_pc >>
    /\ IF ~ValidSpeed(multiplier)
       THEN /\ last' = Called("set_speed", multiplier, "ValueError")
            /\ UNCHANGED << speed_multiplier, last_update_time >>
            /\ UNCHANGED busVars
       ELSE /\ speed_multiplier' = multiplier
            /\ last_update_time' = IF is_playing THEN now ELSE last_update_time
            /\ PublishesAll(t, << TimeEvent(TimeSpeedChanged, current_time) >>)
            /\ last' = Called("set_speed", multiplier, None)
    /\ UNCHANGED << is_playing, current_time, update_timer, orphan_timers,
                    fired_timers, now >>
    /\ UNCHANGED appVars

\* The current_time property: a playing clock updates the time, and
\* publishes "time.changed", before it returns it.
ReadCurrentTime(t) ==
    /\ UNCHANGED << clock_lock, clock_pc >>
    /\ IF is_playing
       THEN /\ current_time' = UpdatedTime
            /\ last_update_time' = now
            /\ PublishesAll(t, << TimeEvent(TimeChanged, UpdatedTime) >>)
       ELSE /\ UNCHANGED << current_time, last_update_time >>
            /\ UNCHANGED busVars
    /\ last' = Called("current_time", None, current_time')
    /\ UNCHANGED << is_playing, speed_multiplier, update_timer, orphan_timers,
                    fired_timers, now >>
    /\ UNCHANGED appVars

\* A started Timer's interval ends: its thread is about to call update_loop,
\* and cancel() has no effect on it any more.
TimerFires ==
    /\ UNCHANGED << clock_lock, clock_pc >>
    /\ fired_timers < MaxTimers
    /\ \/ /\ update_timer = "pending"
          /\ update_timer' = "fired"
          /\ UNCHANGED orphan_timers
       \/ /\ orphan_timers > 0
          /\ orphan_timers' = orphan_timers - 1
          /\ UNCHANGED update_timer
    /\ fired_timers' = fired_timers + 1
    /\ UNCHANGED << is_playing, speed_multiplier, current_time, last_update_time,
                    now, last >>
    /\ UNCHANGED << busVars, appVars >>

\* update_loop in a Timer's thread: under the lock, if the clock is playing,
\* update the time and start the next Timer, which _update_timer then refers to.
TimerRuns(t) ==
    /\ UNCHANGED << clock_lock, clock_pc >>
    /\ fired_timers > 0
    /\ fired_timers' = fired_timers - 1
    /\ IF is_playing
       THEN /\ update_timer = "pending" => orphan_timers < MaxTimers
            /\ current_time' = UpdatedTime
            /\ last_update_time' = now
            /\ PublishesAll(t, << TimeEvent(TimeChanged, UpdatedTime) >>)
            /\ update_timer' = "pending"
            /\ orphan_timers' = IF update_timer = "pending"
                                THEN orphan_timers + 1 ELSE orphan_timers
            /\ last' = IF last.op = "none" THEN last ELSE [last EXCEPT !.updated = TRUE]
       ELSE /\ UNCHANGED << current_time, last_update_time, update_timer,
                            orphan_timers, last >>
            /\ UNCHANGED busVars
    /\ UNCHANGED << is_playing, speed_multiplier, now >>
    /\ UNCHANGED appVars

\* A second of real time passes.
Elapse ==
    /\ UNCHANGED << clock_lock, clock_pc >>
    /\ now < MaxNow
    /\ now' = now + 1
    /\ UNCHANGED << is_playing, speed_multiplier, current_time, last_update_time,
                    update_timer, orphan_timers, fired_timers, last >>
    /\ UNCHANGED << busVars, appVars >>

\* ------------------------------------- SimulationClock with subscribers
\* The clock's operations step by step, for events that have subscribers.
\* An operation takes the clock's lock, makes its assignments, and, still
\* inside "with self._lock", calls the bus's publish for each of its events
\* in turn; the steps of a publish are the bus's own.

ClockIdle(t) == clock_pc[t].pc = "idle"

\* What an operation has yet to do inside its locked block: publish an
\* event, or start the next Timer.
ToPublish(et) == [do |-> "publish", event_type |-> et]
ToStartTimer == [do |-> "timer"]
InClock(op, todo) == [pc |-> "locked", op |-> op, todo |-> todo]

\* update_loop(): on a playing clock _update_time_internal, which ends with
\* _publish_time_changed, and then the next Timer.
UpdateLoop == << ToPublish(TimeChanged), ToStartTimer >>

Publishes(todo) == Len(SelectSeq(todo, LAMBDA x : x.do = "publish"))

\* with self._lock: the thread, at its top level, takes the clock's lock.
ClockEnters(t, op, todo) ==
    /\ ClockIdle(t)
    /\ Idle(t)
    /\ clock_lock = None
    /\ nextEventId + Publishes(todo) - 1 <= MaxClockEvents
    /\ clock_lock' = t
    /\ clock_pc' = [clock_pc EXCEPT ![t] = InClock(op, todo)]

\* play() up to its first publish: the flag and the time of the last update
\* are set; update_loop and the publish of "time.play" follow.
PlayBegins(t) ==
    /\ IF Stopped
       THEN /\ is_playing' = TRUE
            /\ last_update_time' = now
            /\ ClockEnters(t, "play", UpdateLoop \o << ToPublish(TimePlay) >>)
       ELSE /\ UNCHANGED << is_playing, last_update_time >>
            /\ ClockEnters(t, "play", << >>)
    /\ last' = Called("play", None, None)
    /\ UNCHANGED << speed_multiplier, current_time, update_timer, orphan_timers,
                    fired_timers, now >>
    /\ UNCHANGED << busVars, appVars >>

\* pause() up to its publish.
PauseBegins(t) ==
    /\ IF is_playing
       THEN /\ is_playing' = FALSE
            /\ update_timer' = None
            /\ ClockEnters(t, "pause", << ToPublish(TimePause) >>)
       ELSE /\ UNCHANGED << is_playing, update_timer >>
            /\ ClockEnters(t, "pause", << >>)
    /\ last' = Called("pause", None, None)
    /\ UNCHANGED << speed_multiplier, current_time, last_update_time, orphan_timers,
                    fired_timers, now >>
    /\ UNCHANGED << busVars, appVars >>

\* step_forward(steps) up to its first publish.
StepForwardBegins(t, steps) ==
    /\ current_time' = SteppedForward(current_time, steps)
    /\ ClockEnters(t, "step_forward", << ToPublish(TimeStep), ToPublish(TimeChanged) >>)
    /\ last' = Called("step_forward", steps, None)
    /\ UNCHANGED << is_playing, speed_multiplier, last_update_time, update_timer,
                    orphan_timers, fired_timers, now >>
    /\ UNCHANGED << busVars, appVars >>

\* set_speed(multiplier), with a multiplier in the range, up to its publish.
SetSpeedBegins(t, multiplier) ==
    /\ ValidSpeed(multiplier)
    /\ speed_multiplier' = multiplier
    /\ last_update_time' = IF is_playing THEN now ELSE last_update_time
    /\ ClockEnters(t, "set_speed", << ToPublish(TimeSpeedChanged) >>)
    /\ last' = Called("set_speed", multiplier, None)
    /\ UNCHANGED << is_playing, current_time, update_timer, orphan_timers,
                    fired_timers, now >>
    /\ UNCHANGED << busVars, appVars >>

\* update_loop in a Timer's thread, up to its publish: it takes the lock
\* and, if the clock is playing, updates the time.
TickBegins(t) ==
    /\ fired_timers > 0
    /\ fired_timers' = fired_timers - 1
    /\ IF is_playing
       THEN /\ current_time' = UpdatedTime
            /\ last_update_time' = now
            /\ ClockEnters(t, "update_loop", UpdateLoop)
            /\ last' = IF last.op = "none" THEN last ELSE [last EXCEPT !.updated = TRUE]
       ELSE /\ UNCHANGED << current_time, last_update_time, last >>
            /\ ClockEnters(t, "update_loop", << >>)
    /\ UNCHANGED << is_playing, speed_multiplier, update_timer, orphan_timers, now >>
    /\ UNCHANGED << busVars, appVars >>

\* self._event_bus.publish(...), called inside the clock's locked block: the
\* first step of the bus's publish.
ClockPublishes(t) ==
    /\ clock_pc[t].pc = "locked"
    /\ clock_pc[t].todo # << >>
    /\ Head(clock_pc[t].todo).do = "publish"
    /\ PublishBegins(t, Head(clock_pc[t].todo).event_type)
    /\ clock_pc' = [clock_pc EXCEPT ![t].todo = Tail(@)]
    /\ UNCHANGED << is_playing, speed_multiplier, current_time, last_update_time,
                    update_timer, orphan_timers, fired_timers, now, clock_lock, last >>
    /\ UNCHANGED appVars

\* self._update_timer = threading.Timer(...); self._update_timer.start(),
\* once the publish before it has returned.
ClockStartsTimer(t) ==
    /\ clock_pc[t].pc = "locked"
    /\ Idle(t)
    /\ clock_pc[t].todo # << >>
    /\ Head(clock_pc[t].todo).do = "timer"
    /\ update_timer = "pending" => orphan_timers < MaxTimers
    /\ update_timer' = "pending"
    /\ orphan_timers' = IF update_timer = "pending" THEN orphan_timers + 1 ELSE orphan_timers
    /\ clock_pc' = [clock_pc EXCEPT ![t].todo = Tail(@)]
    /\ UNCHANGED << is_playing, speed_multiplier, current_time, last_update_time,
                    fired_timers, now, clock_lock, last >>
    /\ UNCHANGED << busVars, appVars >>

\* The end of the operation's "with self._lock" block, once its last publish
\* has returned: the lock is released.
ClockReturns(t) ==
    /\ clock_pc[t].pc = "locked"
    /\ Idle(t)
    /\ clock_pc[t].todo = << >>
    /\ clock_lock' = None
    /\ clock_pc' = [clock_pc EXCEPT ![t] = [pc |-> "idle"]]
    /\ UNCHANGED << is_playing, speed_multiplier, current_time, last_update_time,
                    update_timer, orphan_timers, fired_timers, now, last >>
    /\ UNCHANGED << busVars, appVars >>

\* History: a read of a property of the clock that returned to the thread's
\* top level, what it returned, and who held the clock's lock then.
Read(property, val) ==
    [op |-> property, arg |-> None, val |-> val, clock_lock |-> clock_lock]

\* A thread at its top level reads a property without taking a lock.
Reads(t, property, val) ==
    /\ ClockIdle(t)
    /\ Idle(t)
    /\ ret' = [ret EXCEPT ![t] = Read(property, val)]
    /\ UNCHANGED << subscribers, lock, event_history, max_history, performance_stats,
                    total_events_published, stack, nextSubId, nextEventId,
                    callback_count, appended, calls, snap, issued, registered >>
    /\ UNCHANGED << clockVars, appVars >>

\* The is_playing property: return self._is_playing, without the lock.
ReadIsPlaying(t) == Reads(t, "is_playing", is_playing)

\* The speed_multiplier property: return self._speed_multiplier, without
\* the lock.
ReadSpeedMultiplier(t) == Reads(t, "speed_multiplier", speed_multiplier)

\* ---------------------------------------------------------- Application
AppStartup == <<"app", "startup">>
AppShutdown == <<"app", "shutdown">>

\* The event of an application publish: its type (the data holds no time).
AppEvent(et) == [event_type |-> et, time |-> None]

\* What a component's methods do: initialize returns "true" or "false" or is
\* "raise"; update and shutdown are "ok" or "raise" (an Exception).
Behaviour(init, upd, shut) == [initialize |-> init, update |-> upd, shutdown |-> shut]
Behaviours ==
    { Behaviour("true", "ok", "ok"), Behaviour("false", "ok", "ok"),
      Behaviour("raise", "ok", "raise"), Behaviour("true", "raise", "ok") }
ComponentNames == {"g", "h"}

\* An entry of _components: a name and the component object registered under it.
Entry(name, id, b) ==
    [name |-> name, id |-> id, initialize |-> b.initialize, update |-> b.update,
     shutdown |-> b.shutdown]

\* list(self._components.keys())
Keys(entries) == [i \in DOMAIN entries |-> entries[i].name]
NameSet(entries) == { entries[i].name : i \in DOMAIN entries }

\* get_component(name): the component registered under the name, or None.
GetComponent(name) ==
    IF name \in NameSet(components)
    THEN components[CHOOSE i \in DOMAIN components : components[i].name = name]
    ELSE None

\* History: a lifecycle call on a component, and the operation that made it.
Life(method, c, by) == [method |-> method, id |-> c.id, name |-> c.name, by |-> by]

\* Mutant: a duplicate name replaces the entry.
NeverRegistered(name) == FALSE

\* if name in self._components
IsRegistered(name) == name \in NameSet(components)

\* del self._components[name]
Removed(entries, name) == SelectSeq(entries, LAMBDA e : e.name # name)

\* The lifecycle calls of unregister_component(name) in the registry given:
\* shutdown on the component, if the name is registered.
ShutdownOf(entries, name, by) ==
    [i \in DOMAIN SelectSeq(entries, LAMBDA e : e.name = name) |->
        Life("shutdown", SelectSeq(entries, LAMBDA e : e.name = name)[i], by)]

\* unregister_component for each name of a list in turn: the registry, and
\* the lifecycle calls, after it.
RECURSIVE RemovedAll(_, _)
RemovedAll(entries, names) ==
    IF names = << >> THEN entries
    ELSE RemovedAll(Removed(entries, Head(names)), Tail(names))

RECURSIVE ShutdownOfAll(_, _, _)
ShutdownOfAll(entries, names, by) ==
    IF names = << >> THEN << >>
    ELSE ShutdownOf(entries, Head(names), by)
         \o ShutdownOfAll(Removed(entries, Head(names)), Tail(names), by)

\* History: the lifecycle calls kept when a thread calls an operation.
SinceCall(t) == IF t = MainThread THEN << >> ELSE life

AppIdle(t) == app_pc[t].pc = "idle"
InRun(t) == app_pc[t].pc \in {"check", "update", "call", "remove"}

\* register_component(name, component), with a component object not
\* registered before.
RegisterComponent(t, name, b) ==
    /\ UNCHANGED initialized
    /\ AppIdle(t)
    /\ IF IsRegistered(name)
       THEN /\ last' = Called("register_component", name, "ValueError")
            /\ UNCHANGED << components, nextComponent >>
       ELSE /\ nextComponent <= MaxComponents
            /\ last' = Called("register_component", name, None)
            /\ components' = Append(components, Entry(name, nextComponent, b))
            /\ nextComponent' = nextComponent + 1
    /\ life' = SinceCall(t)
    /\ UNCHANGED << shutdown_requested, running, frame_count, app_pc >>
    /\ UNCHANGED << is_playing, speed_multiplier, current_time, last_update_time,
                    update_timer, orphan_timers, fired_timers, now,
                    clock_lock, clock_pc >>
    /\ UNCHANGED busVars

\* unregister_component(name) from a thread's top level.
UnregisterComponent(t, name) ==
    /\ UNCHANGED initialized
    /\ AppIdle(t)
    /\ components' = Removed(components, name)
    /\ life' = SinceCall(t) \o ShutdownOf(components, name, "unregister_component")
    /\ last' = Called("unregister_component", name, IsRegistered(name))
    /\ UNCHANGED << shutdown_requested, running, frame_count, app_pc, nextComponent >>
    /\ UNCHANGED << is_playing, speed_multiplier, current_time, last_update_time,
                    update_timer, orphan_timers, fired_timers, now,
                    clock_lock, clock_pc >>
    /\ UNCHANGED busVars

\* Mutant: only a false return counts as a failure.
ReturnedFalse(c) == c.initialize = "false"

\* if not component.initialize(self) ... except Exception
InitializeFailed(c) == c.initialize # "true"

\* startup(): publish "app.startup", initialize every component, unregister
\* the ones that failed, return whether none failed.
Startup(t) ==
    /\ AppIdle(t)
    /\ LET failed == Keys(SelectSeq(components, InitializeFailed))
       IN  /\ components' = RemovedAll(components, failed)
           /\ life' = SinceCall(t)
                 \o [i \in DOMAIN components |-> Life("initialize", components[i], "startup")]
                 \o ShutdownOfAll(components, failed, "startup")
           /\ last' = Called("startup", None, failed = << >>)
           /\ initialized' = initialized \cup
                 { components[i].id : i \in { j \in DOMAIN components :
                                                ~InitializeFailed(components[j]) } }
    /\ PublishesAll(t, << AppEvent(AppStartup) >>)
    /\ UNCHANGED << shutdown_requested, running, frame_count, app_pc, nextComponent >>
    /\ UNCHANGED << is_playing, speed_multiplier, current_time, last_update_time,
                    update_timer, orphan_timers, fired_timers, now,
                    clock_lock, clock_pc >>

\* request_shutdown()
RequestShutdown(t) ==
    /\ UNCHANGED initialized
    /\ AppIdle(t)
    /\ shutdown_requested' = TRUE
    /\ last' = Called("request_shutdown", None, None)
    /\ life' = SinceCall(t)
    /\ UNCHANGED << components, running, frame_count, app_pc, nextComponent >>
    /\ UNCHANGED << is_playing, speed_multiplier, current_time, last_update_time,
                    update_timer, orphan_timers, fired_timers, now,
                    clock_lock, clock_pc >>
    /\ UNCHANGED busVars

\* run(), up to the loop: return at once if the loop is running, else set _running.
RunStart(t) ==
    /\ UNCHANGED initialized
    /\ AppIdle(t)
    /\ IF running
       THEN UNCHANGED << running, app_pc >>
       ELSE /\ running' = TRUE
            /\ app_pc' = [app_pc EXCEPT ![t] = [pc |-> "check", runs |-> app_pc[t].runs]]
    /\ life' = SinceCall(t)
    /\ last' = Called("run", None, None)
    /\ UNCHANGED << components, shutdown_requested, frame_count, nextComponent >>
    /\ UNCHANGED << is_playing, speed_multiplier, current_time, last_update_time,
                    update_timer, orphan_timers, fired_timers, now,
                    clock_lock, clock_pc >>
    /\ UNCHANGED busVars

\* run() has returned: finally: self._running = False.  History: runs counts
\* the calls of run that have returned, up to two.
RunReturned(t) == [app_pc EXCEPT ![t] = [pc |-> "idle", runs |-> Min(app_pc[t].runs + 1, 2)]]

\* Mutant: the loop does not look at _shutdown_requested.
LoopRuns == running

\* while self._running and not self._shutdown_requested
LoopContinues == running /\ ~shutdown_requested

\* The loop's test: the next frame begins, its iteration over _components
\* about to start, or run() returns.
RunCheck(t) ==
    /\ UNCHANGED initialized
    /\ app_pc[t].pc = "check"
    /\ IF LoopContinues
       THEN /\ frame_count < MaxFrames
            /\ app_pc' = [app_pc EXCEPT ![t] =
                   [pc |-> "update", runs |-> app_pc[t].runs, idx |-> 1,
                    size |-> Len(components), item |-> None, failed |-> << >>,
                    seen |-> components, life |-> Len(life)]]
            /\ UNCHANGED running
       ELSE /\ running' = FALSE
            /\ app_pc' = RunReturned(t)
    /\ UNCHANGED << components, shutdown_requested, frame_count, nextComponent, life >>
    /\ UNCHANGED << clockVars, busVars >>

\* Mutant: an update that raises is not recorded.
UpdateNeverFailed(c) == FALSE

\* except Exception around component.update(delta_time)
UpdateFailed(c) == c.update = "raise"

\* for name, component in self._components.items(): the iterator's next
\* item.  The dict iterator raises RuntimeError when the dict's size has
\* changed since the loop began, which run() catches, ending the loop; else
\* it yields the next component, or the loop is over.
RunNext(t) ==
    /\ UNCHANGED initialized
    /\ app_pc[t].pc = "update"
    /\ LET f == app_pc[t]
       IN  IF Len(components) # f.size
           THEN /\ running' = FALSE
                /\ app_pc' = RunReturned(t)
           ELSE IF f.idx <= f.size
           THEN /\ app_pc' = [app_pc EXCEPT ![t] =
                       [f EXCEPT !.pc = "call", !.item = components[f.idx]]]
                /\ UNCHANGED running
           ELSE /\ app_pc' = [app_pc EXCEPT ![t] = [f EXCEPT !.pc = "remove"]]
                /\ UNCHANGED running
    /\ UNCHANGED << components, shutdown_requested, frame_count, nextComponent, life >>
    /\ UNCHANGED << clockVars, busVars >>

\* component.update(delta_time) on the component the iterator has yielded,
\* inside try/except Exception; the thread holds no lock.
RunUpdate(t) ==
    /\ UNCHANGED initialized
    /\ app_pc[t].pc = "call"
    /\ LET f == app_pc[t]
       IN  /\ life' = Append(life, Life("update", f.item, "run"))
           /\ app_pc' = [app_pc EXCEPT ![t] =
                  [f EXCEPT !.pc = "update", !.idx = @ + 1, !.item = None,
                            !.failed = IF UpdateFailed(f.item)
                                       THEN Append(@, f.item.name) ELSE @]]
    /\ UNCHANGED << components, shutdown_requested, running, frame_count, nextComponent >>
    /\ UNCHANGED << clockVars, busVars >>

\* for name in failed_components: self.unregister_component(name), one name
\* a step; then the frame is counted and the loop's test comes next.
RunRemove(t) ==
    /\ UNCHANGED initialized
    /\ app_pc[t].pc = "remove"
    /\ LET f == app_pc[t]
       IN  IF f.failed # << >>
           THEN /\ components' = Removed(components, Head(f.failed))
                /\ life' = life \o ShutdownOf(components, Head(f.failed), "run")
                /\ app_pc' = [app_pc EXCEPT ![t] = [f EXCEPT !.failed = Tail(@)]]
                /\ UNCHANGED frame_count
           ELSE /\ frame_count' = frame_count + 1
                /\ app_pc' = [app_pc EXCEPT ![t] =
                       [pc |-> "check", runs |-> f.runs, seen |-> f.seen, life |-> f.life]]
                /\ UNCHANGED << components, life >>
    /\ UNCHANGED << shutdown_requested, running, nextComponent >>
    /\ UNCHANGED << clockVars, busVars >>

\* shutdown(), first statement: the flag is set.  History: the call is the
\* last one, its result "pending" until it returns.
ShutdownCall(t) ==
    /\ UNCHANGED initialized
    /\ AppIdle(t)
    /\ shutdown_requested' = TRUE
    /\ app_pc' = [app_pc EXCEPT ![t] =
           [pc |-> "publish", runs |-> app_pc[t].runs, life |-> Len(SinceCall(t))]]
    /\ life' = SinceCall(t)
    /\ last' = Called("shutdown", None, "pending")
    /\ UNCHANGED << components, running, frame_count, nextComponent >>
    /\ UNCHANGED << is_playing, speed_multiplier, current_time, last_update_time,
                    update_timer, orphan_timers, fired_timers, now,
                    clock_lock, clock_pc >>
    /\ UNCHANGED busVars

\* Mutant: the components are unregistered in registration order.
InOrder(seq) == seq

\* reversed(component_names)
Reversed(seq) == [i \in DOMAIN seq |-> seq[Len(seq) + 1 - i]]

\* "app.shutdown" is published and the names of the components are listed.
ShutdownPublish(t) ==
    /\ UNCHANGED initialized
    /\ app_pc[t].pc = "publish"
    /\ PublishesAll(t, << AppEvent(AppShutdown) >>)
    /\ app_pc' = [app_pc EXCEPT ![t] =
           [pc |-> "unregister", runs |-> app_pc[t].runs, life |-> app_pc[t].life,
            names |-> Reversed(Keys(components))]]
    /\ UNCHANGED << components, shutdown_requested, running, frame_count,
                    nextComponent, life >>
    /\ UNCHANGED clockVars

\* for name in reversed(component_names): self.unregister_component(name)
ShutdownUnregister(t) ==
    /\ UNCHANGED initialized
    /\ app_pc[t].pc = "unregister"
    /\ app_pc[t].names # << >>
    /\ components' = Removed(components, Head(app_pc[t].names))
    /\ life' = life \o ShutdownOf(components, Head(app_pc[t].names), "shutdown")
    /\ app_pc' = [app_pc EXCEPT ![t].names = Tail(@)]
    /\ UNCHANGED << shutdown_requested, running, frame_count, nextComponent >>
    /\ UNCHANGED << clockVars, busVars >>

\* The call of shutdown has returned.
ShutdownReturned == last.op = "shutdown" /\ last.val = None

\* if self.clock.is_playing: self.clock.pause(); self._running = False
ShutdownReturn(t) ==
    /\ UNCHANGED initialized
    /\ app_pc[t].pc = "unregister"
    /\ app_pc[t].names = << >>
    /\ IF is_playing
       THEN /\ is_playing' = FALSE
            /\ update_timer' = None
            /\ PublishesAll(t, << TimeEvent(TimePause, current_time) >>)
       ELSE /\ UNCHANGED << is_playing, update_timer >>
            /\ UNCHANGED busVars
    /\ running' = FALSE
    /\ app_pc' = [app_pc EXCEPT ![t] = [pc |-> "idle", runs |-> app_pc[t].runs]]
    /\ last' = [last EXCEPT !.val = None]
    /\ UNCHANGED << components, shutdown_requested, frame_count, nextComponent, life >>
    /\ UNCHANGED << speed_multiplier, current_time, last_update_time, orphan_timers,
                    fired_timers, now,
                    clock_lock, clock_pc >>

\* ------------------------------------------------------ specifications
\* One thread subscribing and unsubscribing subscribers of every kind and
\* publishing "config.graphics.changed".
Next ==
    \/ \E r \in Requests : Subscribe(MainThread, r.event_type, r.priority, r.kind)
    \/ \E id \in {NonexistentId} \cup 1..(nextSubId - 1) : Unsubscribe(MainThread, id)
    \/ nextEventId <= MaxEvents /\ Publish(MainThread, ChangedType)
    \/ PublishSnapshot(MainThread)
    \/ Deliver(MainThread)
    \/ PublishStats(MainThread)
    \/ PublishReturn(MainThread)

Spec == Init /\ [][Next]_vars

\* Two threads subscribing a counting subscriber to "config.graphics.changed"
\* and a plain one to "config.graphics.*", publishing both types and clearing
\* the history, on a bus with a small max_history.
RequestsThreads ==
    { [event_type |-> ChangedType, priority |-> 1, kind |-> Kind("count", None)],
      [event_type |-> WildcardType, priority |-> 0, kind |-> Plain] }

InitThreads == InitBus(0..MaxHistory) /\ InitClock /\ InitApp

NextThreads ==
    \E t \in Threads :
       \/ \E r \in RequestsThreads : Subscribe(t, r.event_type, r.priority, r.kind)
       \/ \E et \in EventTypes : nextEventId <= MaxEvents /\ Publish(t, et)
       \/ PublishSnapshot(t)
       \/ Deliver(t)
       \/ PublishStats(t)
       \/ PublishReturn(t)
       \/ ClearHistory(t)

SpecThreads == InitThreads /\ [][NextThreads]_vars

\* One thread publishing to a bus without subscribers and reading the
\* history; max_history is small or just above get_history's default limit.
\* The first MaxEvents events are of either type, the later ones of one.
InitHistory == InitBus((0..MaxHistory) \cup {DefaultLimit + 1}) /\ InitClock /\ InitApp

Limits == (0..MaxLimit) \cup {DefaultLimit}

NextHistory ==
    \/ \E et \in EventTypes :
          /\ nextEventId <= DefaultLimit + ExtraPublishes
          /\ et = ChangedType \/ nextEventId <= MaxEvents
          /\ Publish(MainThread, et)
    \/ PublishSnapshot(MainThread)
    \/ PublishStats(MainThread)
    \/ PublishReturn(MainThread)
    \/ \E et \in EventTypes \cup {NoType}, limit \in Limits :
          GetHistory(MainThread, et, limit)

SpecHistory == InitHistory /\ [][NextHistory]_vars

\* Two threads and callbacks that call back into the bus.  The main thread
\* subscribes one re-publishing callback to "recursive_test" and publishes
\* that type once; the second thread subscribes one callback, a recording
\* one to either type or one that subscribes or unsubscribes to
\* "config.graphics.changed", unsubscribes, and publishes
\* "config.graphics.changed" once.
Republisher == [event_type |-> RecursiveType, priority |-> 10, kind |-> Kind("pub", None)]

RequestsReentrant ==
    { [event_type |-> et, priority |-> 0, kind |-> Kind("count", None)] :
        et \in {RecursiveType, ChangedType} }
    \cup { [event_type |-> ChangedType, priority |-> 0, kind |-> Kind(cb, None)] :
            cb \in {"sub", "unsub"} }

NotPublished(et) == \A i \in DOMAIN appended : appended[i].event_type # et

NextReentrant ==
    \/ /\ \A id \in DOMAIN issued : issued[id].callback # "pub"
       /\ Subscribe(MainThread, Republisher.event_type, Republisher.priority,
                    Republisher.kind)
    \/ NotPublished(RecursiveType) /\ Publish(MainThread, RecursiveType)
    \/ NotPublished(ChangedType) /\ Publish(OtherThread, ChangedType)
    \/ \E r \in RequestsReentrant :
          /\ \A id \in DOMAIN issued : issued[id].callback = "pub"
          /\ Subscribe(OtherThread, r.event_type, r.priority, r.kind)
    \/ \E id \in 1..(nextSubId - 1) : Unsubscribe(OtherThread, id)
    \/ \E t \in Threads :
          \/ PublishSnapshot(t)
          \/ Deliver(t)
          \/ PublishStats(t)
          \/ PublishReturn(t)

\* Every thread is scheduled: a thread inside publish takes its next step
\* when it can.
PublishSteps(t) == PublishSnapshot(t) \/ Deliver(t) \/ PublishStats(t) \/ PublishReturn(t)

SpecReentrant ==
    Init /\ [][NextReentrant]_vars /\ \A t \in Threads : WF_vars(PublishSteps(t))

\* A clock on a bus nobody has subscribed to, whose history holds the
\* events of one call: one thread calling the clock's operations, the Timer
\* threads, and real time passing.
InitClockBus == InitBus({Len(StepEvents(0))}) /\ InitClock /\ InitApp

Steps == {-1, 0, MaxSteps}
Speeds == {TooSlow, MinSpeed, MaxSpeed, MaxSpeed + 1}
TimerThread == "t2"

NextClock ==
    \/ ClockPlay(MainThread)
    \/ ClockPause(MainThread)
    \/ \E n \in Steps : StepForward(MainThread, n)
    \/ \E n \in Steps : StepBackward(MainThread, n)
    \/ \E x \in Speeds : SetSpeed(MainThread, x)
    \/ ReadCurrentTime(MainThread)
    \/ TimerFires
    \/ TimerRuns(TimerThread)
    \/ Elapse

SpecClock == InitClockBus /\ [][NextClock]_vars

\* An application nobody has subscribed to, through its life.  Its main
\* thread registers and unregisters components, then calls startup or not,
\* then starts the clock or not, and calls run, request_shutdown and
\* shutdown, any number of times in any order; a second thread calls
\* request_shutdown and shutdown while the main thread is in run, and the
\* main thread calls nothing until the second thread's call has returned.
Quiet == AppIdle(OtherThread)
Setup == Quiet /\ total_events_published = 0 /\ frame_count = 0 /\ ~shutdown_requested

NextApp ==
    \/ \E name \in ComponentNames, b \in Behaviours :
          Setup /\ RegisterComponent(MainThread, name, b)
    \/ \E name \in ComponentNames : Setup /\ UnregisterComponent(MainThread, name)
    \/ Setup /\ Startup(MainThread)
    \/ Quiet /\ frame_count = 0 /\ ~shutdown_requested /\ AppIdle(MainThread)
          /\ ClockPlay(MainThread)
    \/ Quiet /\ RunStart(MainThread)
    \/ RunCheck(MainThread)
    \/ RunNext(MainThread)
    \/ RunUpdate(MainThread)
    \/ RunRemove(MainThread)
    \/ Quiet /\ RequestShutdown(MainThread)
    \/ Quiet /\ ShutdownCall(MainThread)
    \/ InRun(MainThread) /\ RequestShutdown(OtherThread)
    \/ InRun(MainThread) /\ ShutdownCall(OtherThread)
    \/ \E t \in Threads : ShutdownPublish(t)
    \/ \E t \in Threads : ShutdownUnregister(t)
    \/ \E t \in Threads : ShutdownReturn(t)

SpecApp == InitClockBus /\ [][NextApp]_vars

\* The application's main loop: the main thread registers components, calls
\* run and request_shutdown; the second thread calls request_shutdown and
\* shutdown while the main thread is in run.
NextRun ==
    \/ \E name \in ComponentNames, b \in Behaviours :
          Setup /\ RegisterComponent(MainThread, name, b)
    \/ Quiet /\ RunStart(MainThread)
    \/ RunCheck(MainThread)
    \/ RunNext(MainThread)
    \/ RunUpdate(MainThread)
    \/ RunRemove(MainThread)
    \/ Quiet /\ RequestShutdown(MainThread)
    \/ InRun(MainThread) /\ RequestShutdown(OtherThread)
    \/ InRun(MainThread) /\ ShutdownCall(OtherThread)
    \/ ShutdownPublish(OtherThread)
    \/ ShutdownUnregister(OtherThread)
    \/ ShutdownReturn(OtherThread)

\* The main thread is scheduled: while it is in run, the loop takes its
\* next step.
RunSteps ==
    RunCheck(MainThread) \/ RunNext(MainThread) \/ RunUpdate(MainThread)
        \/ RunRemove(MainThread)

SpecAppLive == InitClockBus /\ [][NextRun]_vars /\ WF_vars(RunSteps)

\* A clock on a bus with subscribers to the clock's events, and a second
\* thread: the main thread subscribes recording callbacks and calls the
\* clock's operations; the second thread runs the Timers' update_loop and
\* reads the properties is_playing and speed_multiplier.
RequestsClock ==
    { [event_type |-> et, priority |-> 0, kind |-> Kind("count", None)] :
        et \in {TimeChanged, TimeSpeedChanged} }

NextClockSubscribed ==
    \/ \E r \in RequestsClock :
          /\ last = NoCall
          /\ \A id \in DOMAIN issued : issued[id].event_type # r.event_type
          /\ Subscribe(MainThread, r.event_type, r.priority, r.kind)
    \/ PlayBegins(MainThread)
    \/ PauseBegins(MainThread)
    \/ StepForwardBegins(MainThread, MaxSteps)
    \/ SetSpeedBegins(MainThread, MaxSpeed)
    \/ TimerFires
    \/ TickBegins(TimerThread)
    \/ ReadIsPlaying(OtherThread)
    \/ ReadSpeedMultiplier(OtherThread)
    \/ \E t \in Threads :
          \/ ClockPublishes(t)
          \/ ClockStartsTimer(t)
          \/ ClockReturns(t)
          \/ PublishSnapshot(t)
          \/ Deliver(t)
          \/ PublishStats(t)
          \/ PublishReturn(t)

SpecClockSubscribed == InitClockBus /\ [][NextClockSubscribed]_vars

\* ------------------------------------------------------------- claims
\* The positions of calls at which subscription s is invoked for event e.
Invoked(s, e) == { i \in DOMAIN calls : calls[i].sub = s /\ calls[i].ev = e }
\* The publish of event e has returned.
Delivered(e) == e \in DOMAIN snap /\ e \notin InProgress
\* The subscriptions registered now for an event type.
RegisteredFor(et) == { s \in registered : issued[s].event_type = et }

\* C1: of two subscriptions registered for the type of an event when it is
\* published, the one of higher priority (whose filter, if it has one, passes)
\* is invoked for the event before the other is, and once the publish has
\* returned both have been invoked; in whatever order they were subscribed.
C1_PriorityOrder ==
    \A e \in DOMAIN snap : \A s1, s2 \in snap[e].reg :
       (issued[s1].priority > issued[s2].priority /\ FilterPasses(issued[s1])) =>
          /\ \A j \in Invoked(s2, e) : \E i \in Invoked(s1, e) : i < j
          /\ (Delivered(e) /\ FilterPasses(issued[s2])) =>
                (Invoked(s1, e) # {} /\ Invoked(s2, e) # {})

\* C1's case: a publish has returned that invoked two subscriptions of
\* different priority, the one of higher priority subscribed last.
C1_Witness ==
    \E e \in DOMAIN snap : \E s1, s2 \in snap[e].reg :
       /\ Delivered(e)
       /\ issued[s1].priority > issued[s2].priority
       /\ s1 > s2
       /\ Invoked(s1, e) # {} /\ Invoked(s2, e) # {}

\* C2: no publish ends by raising to its caller, and once the publish of an
\* event that has a raising subscriber has returned, every other subscription
\* registered for the event (whose filter passes) has been invoked for it
\* exactly once.
C2_Isolation ==
    /\ \A t \in Threads : ret[t].op = "publish" => ret[t].val # "raised"
    /\ \A e \in DOMAIN snap :
          (Delivered(e) /\ \E r \in snap[e].reg : issued[r].callback = "raise") =>
             \A s \in snap[e].reg :
                FilterPasses(issued[s]) => Cardinality(Invoked(s, e)) = 1

\* C2's case: a publish has returned in which a subscriber raised and a
\* subscriber of lower and one of higher or equal priority were invoked.
C2_Witness ==
    \E e \in DOMAIN snap : \E r, s \in snap[e].reg :
       /\ Delivered(e)
       /\ issued[r].callback = "raise"
       /\ Invoked(r, e) # {}
       /\ \E j \in Invoked(s, e) : \E i \in Invoked(r, e) : i < j

\* C3: unsubscribe returns true exactly when it is called with an id that is
\* subscribed and was not unsubscribed before, false for a second call and for
\* an id never issued; and a subscription is invoked only for events that were
\* published while it was registered, never for one published after its
\* unsubscribe.
C3_Unsubscribe ==
    /\ \A t \in Threads :
          ret[t].op = "unsubscribe" => (ret[t].val <=> ret[t].nth = 1)
    /\ \A i \in DOMAIN calls : calls[i].sub \in snap[calls[i].ev].reg

\* C3's case: the second unsubscribe call with an id has returned false.
C3_Witness ==
    /\ ret[MainThread].op = "unsubscribe"
    /\ ret[MainThread].nth = 2
    /\ ret[MainThread].val = FALSE

\* C7: every list of subscriptions is sorted by descending priority, with
\* subscriptions of equal priority in the order they were subscribed in (ids
\* are issued in that order), and they are invoked in that order.
C7_SortedStable ==
    /\ \A et \in DOMAIN subscribers :
          \A i, j \in 1..Len(subscribers[et]) :
             i < j =>
                \/ subscribers[et][i].priority > subscribers[et][j].priority
                \/ /\ subscribers[et][i].priority = subscribers[et][j].priority
                   /\ subscribers[et][i].subscription_id < subscribers[et][j].subscription_id
    /\ \A i, j \in DOMAIN calls :
          (/\ i < j
           /\ calls[i].ev = calls[j].ev
           /\ issued[calls[i].sub].priority = issued[calls[j].sub].priority)
          => calls[i].sub < calls[j].sub

\* C7's case: a list holds two subscriptions of equal priority, and both
\* have been invoked for an event.
C7_Witness ==
    \E et \in DOMAIN subscribers :
       /\ Len(subscribers[et]) >= 2
       /\ subscribers[et][1].priority = subscribers[et][2].priority
       /\ \E e \in DOMAIN snap :
             /\ Invoked(subscribers[et][1].subscription_id, e) # {}
             /\ Invoked(subscribers[et][2].subscription_id, e) # {}

\* C9: what a publish copies is the set of subscriptions registered for the
\* type at that moment, with every subscribe and unsubscribe made before it,
\* by callbacks too; only subscriptions of the copy are invoked for the event;
\* and once the publish has returned, every subscription of the copy whose
\* filter passes has been invoked, whatever the callbacks did to the registry
\* meanwhile.
C9_SnapshotDelivery ==
    \A e \in DOMAIN snap :
       LET copied == { snap[e].ids[i] : i \in DOMAIN snap[e].ids }
       IN  /\ copied = snap[e].reg
           /\ \A i \in DOMAIN calls : calls[i].ev = e => calls[i].sub \in copied
           /\ Delivered(e) =>
                 \A s \in copied : FilterPasses(issued[s]) => Invoked(s, e) # {}

\* C9's case: a publish has returned during which a callback changed the
\* registered subscriptions of the event's type.
C9_Witness ==
    \E e \in DOMAIN snap :
       /\ Delivered(e)
       /\ RegisteredFor(snap[e].event_type) # snap[e].reg
       /\ calls # << >>

\* The last n elements of a sequence (all of it when it is shorter).
LastOf(seq, n) == SubSeq(seq, Max(Len(seq) - n, 0) + 1, Len(seq))
\* A get_history call has returned to the thread and nothing was published since.
HistoryRead(t) == ret[t].op = "get_history"
DefaultRead(t) ==
    /\ HistoryRead(t)
    /\ ret[t].arg = [event_type |-> NoType, limit |-> DefaultLimit]

\* C4, as the claim states it: after more than max_history publishes,
\* get_history() returns exactly the last max_history events published.
C4_AsClaimed ==
    (DefaultRead(MainThread) /\ Len(appended) > max_history) =>
       /\ Len(ret[MainThread].val) = max_history
       /\ ret[MainThread].val = LastOf(appended, max_history)

\* C4, amended: after more than max_history publishes, get_history() returns
\* exactly the last min(max_history, 100) events published, oldest first.
C4_HistoryBound ==
    (DefaultRead(MainThread) /\ Len(appended) > max_history) =>
       ret[MainThread].val = LastOf(appended, Min(max_history, DefaultLimit))

\* C4's case: get_history() has returned on a bus with max_history >= 2 after
\* more than max_history publishes.
C4_Witness ==
    /\ DefaultRead(MainThread)
    /\ max_history >= 2
    /\ Len(appended) > max_history

C6_AtMostLimit ==
    HistoryRead(MainThread) =>
       LET et == ret[MainThread].arg.event_type
           limit == ret[MainThread].arg.limit
           matching == IF et = NoType THEN event_history
                       ELSE SelectSeq(event_history, LAMBDA e : e.event_type = et)
       IN  /\ Len(ret[MainThread].val) <= limit
           /\ ret[MainThread].val = LastOf(matching, limit)

\* C8: a subscription is invoked only for events whose type is the type it
\* was subscribed with.
C8_ExactType ==
    \A i \in DOMAIN calls :
       issued[calls[i].sub].event_type = snap[calls[i].ev].event_type

\* C8's case: a publish of "config.graphics.changed" has returned while a
\* subscription to "config.graphics.*" was registered, and a subscriber of
\* "config.graphics.changed" that subscribed after it was invoked for it.
C8_Witness ==
    \E e \in DOMAIN snap :
       /\ Delivered(e)
       /\ snap[e].event_type = ChangedType
       /\ \E s \in registered, i \in DOMAIN calls :
             /\ issued[s].event_type = WildcardType
             /\ calls[i].ev = e
             /\ s < calls[i].sub

AllReturned == \A t \in Threads : Idle(t)

\* C10: when every publish call has returned, the bus's event count is the
\* number of publish calls made, and a counting subscriber that was never
\* unsubscribed has been invoked once for each event of its type published
\* since it subscribed (no clear_history having dropped the record of them).
C10_NoLostPublish ==
    AllReturned =>
       /\ total_events_published = nextEventId - 1
       /\ Len(appended) = nextEventId - 1 =>
             \A s \in registered :
                issued[s].callback = "count" =>
                   callback_count[s] =
                      Cardinality({ i \in DOMAIN appended :
                                      /\ appended[i].event_type = issued[s].event_type
                                      /\ appended[i].event_id >= issued[s].since })

\* C10's case: both threads have published to a type with a counting
\* subscriber, which has been invoked twice, and both calls have returned.
C10_Witness ==
    /\ AllReturned
    /\ \A t \in Threads : ret[t].op = "publish" /\ ret[t].arg = ChangedType
    /\ \E s \in registered : issued[s].callback = "count" /\ callback_count[s] >= 2
    /\ total_events_published >= 2

\* ------------------------------------------------ claims on the clock
\* The events published since the last call was made, oldest first (the
\* history of SpecClock holds the events of one call), and their types.
NewEvents == LastOf(event_history, total_events_published - last.pre.published)
NewTypes == [i \in DOMAIN NewEvents |-> NewEvents[i].event_type]
CountOf(et) == Cardinality({ i \in DOMAIN NewTypes : NewTypes[i] = et })
\* The last call has returned and no tick has run since.
JustReturned(op) == last.op = op /\ ~last.updated
\* The clock's fields are as they were when the last call was made.
ClockUntouched ==
    /\ is_playing = last.pre.is_playing
    /\ speed_multiplier = last.pre.speed_multiplier
    /\ current_time = last.pre.current_time
    /\ last_update_time = last.pre.last_update_time
    /\ (update_timer = None) <=> (last.pre.update_timer = None)

\* C11: the clock starts Stopped; play() called on a Stopped clock leaves it
\* Playing and publishes exactly one "time.play"; called on a Playing clock it
\* publishes nothing and changes no field; pause() called on a Playing clock
\* leaves it Stopped and publishes exactly one "time.pause" and nothing else;
\* called on a Stopped clock it publishes nothing and changes no field.
C11_PlayPause ==
    /\ last = NoCall => ~is_playing
    /\ JustReturned("play") =>
          IF ~last.pre.is_playing
          THEN is_playing /\ CountOf(TimePlay) = 1 /\ CountOf(TimePause) = 0
          ELSE NewEvents = << >> /\ ClockUntouched
    /\ JustReturned("pause") =>
          IF last.pre.is_playing
          THEN ~is_playing /\ NewTypes = << TimePause >>
          ELSE NewEvents = << >> /\ ClockUntouched

\* C11's case: pause() has returned on a clock that play() had set Playing,
\* too late to cancel the Timer, whose thread has fired.
C11_Witness ==
    /\ JustReturned("pause")
    /\ last.pre.is_playing
    /\ last.pre.published >= 2
    /\ fired_timers > 0

\* C12: set_speed(x) with x outside [0.1, 100.0] raises ValueError, publishes
\* nothing and leaves every field of the clock as it was; with x inside, it
\* sets speed_multiplier to x and publishes "time.speed_changed".
C12_SetSpeed ==
    JustReturned("set_speed") =>
       IF last.arg < MinSpeed \/ last.arg > MaxSpeed
       THEN last.val = "ValueError" /\ NewEvents = << >> /\ ClockUntouched
       ELSE /\ last.val = None
            /\ speed_multiplier = last.arg
            /\ NewTypes = << TimeSpeedChanged >>

\* C12's case: set_speed(0.05) has raised on a Playing clock whose speed had
\* been set to 100.0 before.
C12_Witness ==
    /\ JustReturned("set_speed")
    /\ last.arg = TooSlow
    /\ last.val = "ValueError"
    /\ last.pre.is_playing
    /\ speed_multiplier = MaxSpeed

\* step_backward(n) has returned, called right after step_forward(n) returned.
SteppedThereAndBack ==
    /\ JustReturned("step_backward")
    /\ last.was.op = "step_forward"
    /\ last.was.arg = last.arg

\* C13, as the claim states it: step_forward(n) followed immediately by
\* step_backward(n) returns current_time to the value it had before the two
\* calls, in either play state.
C13_AsClaimed == SteppedThereAndBack => current_time = last.was.current_time

\* C13, amended: on a Stopped clock, step_forward(n) followed immediately by
\* step_backward(n) returns current_time to the value it had before the two
\* calls (on a Playing clock a tick between the two calls advances it).
C13_StepRoundTrip ==
    (SteppedThereAndBack /\ ~last.pre.is_playing) =>
       current_time = last.was.current_time

\* C13's case: step_forward(n) and step_backward(n), n not zero, have
\* returned on a Stopped clock whose time had moved before.
C13_Witness ==
    /\ SteppedThereAndBack
    /\ last.arg # 0
    /\ ~last.pre.is_playing
    /\ current_time > 0

\* C14: every step_forward(n) and step_backward(n) moves current_time by
\* n * step_size, forward or backward, and publishes exactly "time.step" and
\* then "time.changed", both carrying the time after the move.
C14_StepEvents ==
    \A op \in {"step_forward", "step_backward"} :
       JustReturned(op) =>
          LET moved == IF op = "step_forward"
                       THEN last.pre.current_time + last.arg * StepSize
                       ELSE last.pre.current_time - last.arg * StepSize
          IN  /\ current_time = moved
              /\ NewTypes = << TimeStep, TimeChanged >>
              /\ \A i \in DOMAIN NewEvents : NewEvents[i].time = moved

\* C14's case: step_backward(0) has returned on a Playing clock.
C14_Witness ==
    /\ JustReturned("step_backward")
    /\ last.arg = 0
    /\ last.pre.is_playing
    /\ is_playing
\* ---------------------------------------------- claims on the application
\* C15: the registry holds at most one component per name.  A
\* register_component under a name that is registered raises ValueError and
\* leaves the registry as it was; under a name that is not registered (never,
\* or no longer) it appends the component.  Neither calls a lifecycle method.
C15_DuplicateName ==
    /\ \A i, j \in DOMAIN components :
          components[i].name = components[j].name => i = j
    /\ last.op = "register_component" =>
          /\ life = << >>
          /\ IF last.arg \in NameSet(last.pre.components)
             THEN last.val = "ValueError" /\ components = last.pre.components
             ELSE /\ last.val = None
                  /\ Len(components) = Len(last.pre.components) + 1
                  /\ SubSeq(components, 1, Len(last.pre.components)) = last.pre.components
                  /\ components[Len(components)].name = last.arg

\* A registration has failed on the name of the one component registered,
\* which is not the first component registered: the first was removed.
C15_Witness ==
    /\ last.op = "register_component"
    /\ last.val = "ValueError"
    /\ Len(components) = 1
    /\ components[1].name = last.arg
    /\ components[1].id > 1

\* C16: startup returns true exactly when every registered component's
\* initialize returned true.  When it returns, the components whose
\* initialize returned false or raised have had shutdown called and are
\* not in the registry, and the others are, in their order.
C16_Startup ==
    last.op = "startup" =>
        LET before == last.pre.components
        IN  /\ last.val = (\A i \in DOMAIN before : before[i].initialize = "true")
            /\ components = SelectSeq(before, LAMBDA c : c.initialize = "true")
            /\ \A i \in DOMAIN before :
                  /\ \E k \in DOMAIN life :
                        life[k].method = "initialize" /\ life[k].id = before[i].id
                  /\ before[i].initialize # "true" =>
                        /\ GetComponent(before[i].name) = None
                        /\ \E k \in DOMAIN life :
                              life[k].method = "shutdown" /\ life[k].id = before[i].id

\* startup has returned false: of two components one raised in initialize
\* and the other one, which returned true, is the one registered.
C16_Witness ==
    /\ last.op = "startup"
    /\ last.val = FALSE
    /\ Len(last.pre.components) = 2
    /\ \E i \in DOMAIN last.pre.components : last.pre.components[i].initialize = "raise"
    /\ Len(components) = 1
    /\ components[1].initialize = "true"

\* The lifecycle calls of one method, in order, from an index of the log on.
CallsFrom(from, method) ==
    SelectSeq(SubSeq(life, from + 1, Len(life)), LAMBDA c : c.method = method)

\* C17: in a frame whose iteration has completed, every component registered
\* when the frame began has been updated exactly once, in registration
\* order, whether or not an update raised; when the frame is over the
\* components whose update raised have had shutdown called and are not
\* registered; and no component is updated after the loop has unregistered
\* it.
C17_UpdateIsolation ==
    /\ \A t \in Threads :
          /\ app_pc[t].pc = "remove" =>
                LET f == app_pc[t]
                    updates == CallsFrom(f.life, "update")
                IN  /\ Len(updates) = Len(f.seen)
                    /\ \A i \in DOMAIN updates : updates[i].id = f.seen[i].id
          /\ (app_pc[t].pc = "check" /\ "seen" \in DOMAIN app_pc[t]) =>
                LET f == app_pc[t]
                IN  \A i \in DOMAIN f.seen :
                      f.seen[i].update = "raise" =>
                          /\ \A j \in DOMAIN components : components[j].id # f.seen[i].id
                          /\ \E k \in DOMAIN life :
                                life[k].method = "shutdown" /\ life[k].id = f.seen[i].id
    /\ \A j, k \in DOMAIN life :
          (j < k /\ life[j].method = "shutdown" /\ life[j].by = "run"
                 /\ life[k].id = life[j].id)
              => life[k].method # "update"

\* In the second frame a component is updated, after another component's
\* update raised in the first frame and the loop unregistered it.
C17_Witness ==
    /\ frame_count = 1
    /\ app_pc[MainThread].pc = "remove"
    /\ \E j, k \in DOMAIN life :
          /\ j < k
          /\ life[j].method = "shutdown" /\ life[j].by = "run"
          /\ life[k].method = "update" /\ life[k].id # life[j].id
          /\ k > app_pc[MainThread].life

\* The components shutdown() has shut down so far, in order.
ShutDownBy(t) ==
    SelectSeq(SubSeq(life, app_pc[t].life + 1, Len(life)), LAMBDA c : c.by = "shutdown")

\* C18: shutdown sets the flag before anything else; then publishes
\* "app.shutdown", no component shut down yet; then shuts the components
\* down in reverse registration order, the clock as it was; and when it
\* returns, every component registered at the call has been shut down, the
\* registry is empty and the clock is Stopped, paused last if it was Playing.
C18_ShutdownOrder ==
    /\ \A t \in Threads :
          /\ app_pc[t].pc = "publish" =>
                /\ shutdown_requested
                /\ total_events_published = last.pre.published
                /\ ShutDownBy(t) = << >>
                /\ is_playing = last.pre.is_playing
          /\ app_pc[t].pc = "unregister" =>
                /\ shutdown_requested
                /\ total_events_published = last.pre.published + 1
                /\ event_history[Len(event_history)].event_type = AppShutdown
                /\ is_playing = last.pre.is_playing
                /\ \A i, j \in DOMAIN ShutDownBy(t) :
                      i < j => ShutDownBy(t)[i].id > ShutDownBy(t)[j].id
                /\ \A i \in DOMAIN components :
                      components[i].name \in { app_pc[t].names[k] : k \in DOMAIN app_pc[t].names }
    /\ ShutdownReturned =>
          /\ shutdown_requested
          /\ components = << >>
          /\ Stopped
          /\ \A i \in DOMAIN last.pre.components :
                \E k \in DOMAIN life :
                    life[k].method = "shutdown" /\ life[k].id = last.pre.components[i].id
          /\ IF last.pre.is_playing
             THEN /\ total_events_published = last.pre.published + 2
                  /\ event_history[Len(event_history)].event_type = TimePause
             ELSE total_events_published = last.pre.published + 1

\* shutdown has returned, called with two components registered and the
\* clock Playing.
C18_Witness ==
    /\ ShutdownReturned
    /\ Len(last.pre.components) = 2
    /\ last.pre.is_playing
    /\ Len(life) >= 2
    /\ life[Len(life)].by = "shutdown"
    /\ life[Len(life) - 1].by = "shutdown"

\* C19: a shutdown called after a shutdown has returned leaves the registry,
\* the flags and the clock as they were, shuts no component down a second
\* time and publishes nothing.
C19_AsClaimed ==
    (ShutdownReturned /\ last.was.op = "shutdown") =>
        /\ components = last.pre.components
        /\ shutdown_requested = last.pre.shutdown_requested
        /\ running = last.pre.running
        /\ is_playing = last.pre.is_playing
        /\ \A j, k \in DOMAIN life :
              (j < k /\ life[j].method = "shutdown") =>
                  ~(life[k].method = "shutdown" /\ life[k].id = life[j].id)
        /\ total_events_published = last.pre.published

\* C20: once shutdown is requested while the main thread is in run, run
\* returns; the loop begins no frame while shutdown is requested, so at most
\* the frame in progress is completed and a later run executes none; and
\* whenever the main thread is not in run, is_running() is false.
C20_RunReturns ==
    /\ (InRun(MainThread) /\ shutdown_requested) ~> ~InRun(MainThread)
    /\ [][(shutdown_requested /\ app_pc[MainThread].pc \notin {"update", "call"})
              => app_pc'[MainThread].pc \notin {"update", "call"}]_vars
    /\ [](~InRun(MainThread) => ~running)

\* A run that executed a frame has returned, and so has a later call of run
\* made after shutdown was requested.
C20_Witness ==
    /\ AppIdle(MainThread)
    /\ app_pc[MainThread].runs = 2
    /\ frame_count >= 1
    /\ last.op = "run"
    /\ last.pre.shutdown_requested
    /\ ~running

\* ------------------------------------------------ claims on re-entrancy
\* The subscriptions of the re-publishing callback.
Republishers == { id \in DOMAIN issued : issued[id].callback = "pub" }

\* C21: a thread holds the bus lock only inside a locked block of publish,
\* never while its delivery loop runs a callback; a re-publishing callback
\* is invoked at most MaxInvocations times and, when the publish that
\* started it has returned with it still subscribed, exactly that often;
\* and every publish call, with whatever its callbacks call, returns.
C21_Reentrant ==
    /\ [](\A t \in Threads :
            lock.owner = t => (~Idle(t) /\ Top(t).pc \in {"locked", "count"}))
    /\ [](\A id \in Republishers :
            /\ callback_count[id] <= MaxInvocations
            /\ (ret[MainThread] = Returned("publish", RecursiveType, None)
                   /\ id \in registered)
                 => callback_count[id] = MaxInvocations)
    /\ \A t \in Threads : (~Idle(t)) ~> Idle(t)

\* The publish of "recursive_test" has returned, its callback invoked
\* MaxInvocations times and still subscribed, and the other thread's
\* publish has appended its event between two events of the callback's.
C21_Witness ==
    /\ ret[MainThread] = Returned("publish", RecursiveType, None)
    /\ \E id \in Republishers :
          id \in registered /\ callback_count[id] = MaxInvocations
    /\ \E i, j, k \in DOMAIN appended :
          /\ i < j /\ j < k
          /\ appended[i].event_type = RecursiveType
          /\ appended[j].event_type = ChangedType
          /\ appended[k].event_type = RecursiveType

\* C30: a subscriber receives events in the order in which they were
\* appended to the history, also when one is published from inside a
\* callback handling the other: of two invocations of one subscription's
\* callback, the earlier one is for the event appended earlier.  Event ids
\* are given in the order of appending.
C30_AsClaimed ==
    \A i, j \in DOMAIN calls :
        (i < j /\ calls[i].sub = calls[j].sub) => calls[i].ev < calls[j].ev

\* ------------------------------------------- claims on the clock's ticks
\* The Timers that are pending, and the Timer threads about to run
\* update_loop: each, on a playing clock, starts a Timer of its own.
TickChains == (IF update_timer = "pending" THEN 1 ELSE 0) + orphan_timers + fired_timers

\* C26: at most one tick chain is pending or running.
C26_AsClaimed == TickChains <= 1

\* C29: reading current_time publishes no event.
C29_AsClaimed == last.op = "current_time" => total_events_published = last.pre.published

\* ------------------------------ claims on the registry under concurrency

\* C28: for each registration of a component its shutdown is invoked at
\* most once, and its update is never invoked after its shutdown has been,
\* whatever the interleaving of the run loop with another thread's
\* unregister_component or shutdown.
C28_AsClaimed ==
    \A j, k \in DOMAIN life :
        (j < k /\ life[j].method = "shutdown" /\ life[k].id = life[j].id)
            => life[k].method \notin {"shutdown", "update"}

\* C27: update is called only on components whose initialize startup has
\* called and which returned true; a component never initialized by
\* startup, as when run is started without startup, receives no update.
C27_AsClaimed ==
    \A k \in DOMAIN life :
        life[k].method = "update" => life[k].id \in initialized

\* C24: no registration or removal happens in the middle of an iteration
\* over the registry: while the main thread is inside the loop of
\* _update_components, the registry is as it was when the loop began.
C24_AsClaimed ==
    app_pc[MainThread].pc \in {"update", "call"}
        => components = app_pc[MainThread].seen

\* C25: a component whose initialize failed in startup is unregistered, its
\* shutdown called and its entry deleted, before the next component's
\* initialize is called.
C25_AsClaimed ==
    \A j, k, m \in DOMAIN life :
        ( /\ j < k
          /\ life[j].method = "initialize" /\ life[k].method = "initialize"
          /\ life[m].method = "shutdown" /\ life[m].by = "startup"
          /\ life[m].id = life[j].id /\ j < m )
            => \E n \in DOMAIN life :
                  /\ j < n /\ n < k
                  /\ life[n].method = "shutdown" /\ life[n].id = life[j].id

\* ------------------------------------------ claims on the clock's lock
\* C22: a thread that is invoking a subscriber's callback holds neither the
\* bus's lock nor the clock's, also when the event is one that an operation
\* of the clock or a tick publishes.
C22_AsClaimed ==
    \A t \in Threads :
        (~Idle(t) /\ Top(t).pc = "deliver" /\ Top(t).idx <= Len(DeliveryList(Top(t))))
            => (lock.owner # t /\ clock_lock # t)

\* C23: the clock's state is read under the clock's lock: a read of
\* is_playing or speed_multiplier is never made while another thread is
\* inside a locked operation of the clock, when only part of the
\* operation's updates has been made.
C23_AsClaimed ==
    \A t \in Threads :
        ret[t].op \in {"is_playing", "speed_multiplier"} => ret[t].clock_lock \in {None, t}

====
